---------------------------- MODULE Spec2Model ----------------------------
(***************************************************************************)
(* Model of scraper.py: the sqlite-backed grant store (Database and        *)
(* GenreManager), the paginated crawl (scrape_grants) and the module's     *)
(* top-level run (crawl, then insert every accumulated grant, then dump).  *)
(*                                                                         *)
(* Text is modelled as a sequence of one-character strings, so that        *)
(* str.split(','), str.strip() and string concatenation are computed       *)
(* character by character as Python computes them.                         *)
(***************************************************************************)
EXTENDS Integers, Sequences, FiniteSets, TLC

VARIABLES
    grants,       \* table grants: sequence of rows in rowid order
    genres,       \* table genres: sequence of rows [id, name] in rowid order
    grant_genre,  \* table grant_genre: sequence of rows [grant_id, genre_id]
    sqlite_sequence, \* sqlite's AUTOINCREMENT counters of grants and genres
    last,         \* the last call made on the Database object and its outcome
    pre,          \* the three tables as they were when that call started
    pc,           \* position of the top-level program
    page,         \* scrape_grants: local variable page
    response,     \* scrape_grants: the response of the last requests.get
    grants_list,  \* scrape_grants: local grants_list / module-level grants_list
    requests,     \* page indexes requested so far in this run, in order
    output,       \* lines printed so far in this run, in order
    site,         \* what the site served at each index (replayed by a re-run)
    pos,          \* top-level for loop: grants_list entries already handled
    rows_at_start,\* number of grants rows when this run started
    rerun         \* FALSE in the first run over the data, TRUE in a later one

vars == <<grants, genres, grant_genre, sqlite_sequence, last, pre, pc, page, response,
          grants_list, requests, output, site, pos, rows_at_start, rerun>>

tables == <<grants, genres, grant_genre, sqlite_sequence>>
crawl == <<pc, page, response, grants_list, requests, output, site, pos,
           rows_at_start, rerun>>

-----------------------------------------------------------------------------
(* Bounds of the model *)

\* the store-level specifications make no call that would store more rows than
\* this in grants
MaxGrants == 2

\* the crawl is followed for page indexes 0 .. MaxPages - 1
MaxPages == 3

-----------------------------------------------------------------------------
(* Text *)

\* characters str.strip() removes when called without an argument: those
\* str.isspace() holds for. Listed are all of them up to U+00FF: tab, line
\* feed, carriage return, form feed, space, then vertical tab (U+000B), the
\* separators U+001C to U+001F, next line (U+0085) and no-break space
\* (U+00A0), written as the characters themselves. The spaces above U+00FF
\* (U+1680, U+2000 to U+200A, U+2028, U+2029, U+202F, U+205F, U+3000) are
\* stripped as well; a string of the module cannot hold them, so texts are
\* over the characters up to U+00FF
Whitespace ==
    {"\t", "\n", "\r", "\f", " ",
     "", "", "", "", "", "", " "}

RECURSIVE LStrip(_)
LStrip(s) ==
    IF s # <<>> /\ Head(s) \in Whitespace THEN LStrip(Tail(s)) ELSE s

RECURSIVE RStrip(_)
RStrip(s) ==
    IF s # <<>> /\ s[Len(s)] \in Whitespace
    THEN RStrip(SubSeq(s, 1, Len(s) - 1))
    ELSE s

\* strip() were it lstrip(): trailing whitespace is kept
StripLeftOnly(s) == LStrip(s)

\* str.strip()
Strip(s) == RStrip(LStrip(s))

\* str.split(sep) for a one-character sep: n separators give n + 1 pieces,
\* the empty text gives one empty piece
RECURSIVE Split(_, _)
Split(s, sep) ==
    IF \E i \in 1..Len(s) : s[i] = sep
    THEN LET i == CHOOSE k \in 1..Len(s) :
                    s[k] = sep /\ \A j \in 1..(k - 1) : s[j] # sep
         IN  <<SubSeq(s, 1, i - 1)>> \o Split(SubSeq(s, i + 1, Len(s)), sep)
    ELSE <<s>>

\* map Strip over a sequence of texts
StripAll(ps) == [i \in 1..Len(ps) |-> Strip(ps[i])]

\* the pieces were line 126 ("if genre:") left out
GenrePiecesKeepEmpty(text) == StripAll(Split(text, ","))

\* lines 124-126: the names insert_grant registers and links, in order:
\* the comma-separated pieces, stripped, the empty ones left out
GenrePieces(text) ==
    SelectSeq(StripAll(Split(text, ",")), LAMBDA p : p # <<>>)

Range(s) == {s[i] : i \in 1..Len(s)}

-----------------------------------------------------------------------------
(* The store: tables grants, genres, grant_genre *)

\* a column holding SQL NULL
Null == <<"NULL">>

\* get_genre_id returns None when no row matches; link_grant_to_genre tests the
\* result for truth, which None and 0 both fail, and AUTOINCREMENT ids start
\* at 1, so "no id" is modelled as 0
NoId == 0

\* INTEGER PRIMARY KEY AUTOINCREMENT: one more than the counter sqlite keeps
\* for the table in sqlite_sequence (no row is deleted, and no id is given
\* explicitly, so the counter is never below the largest id in the table)
NextId(seq) == seq + 1

DB(gr, ge, gg, sq) ==
    [grants |-> gr, genres |-> ge, grant_genre |-> gg, sqlite_sequence |-> sq]

NaturalKey(g) == <<g.issuer, g.title, g.deadline>>

\* the constraint were it UNIQUE over description and genres as well
SameRecordExists(rows, g) ==
    \E i \in 1..Len(rows) :
        /\ NaturalKey(rows[i]) = NaturalKey(g)
        /\ rows[i].description = g.description
        /\ rows[i].genres = g.genres

\* UNIQUE(issuer, title, deadline) on grants: the INSERT of g collides
KeyExists(rows, g) ==
    \E i \in 1..Len(rows) : NaturalKey(rows[i]) = NaturalKey(g)

\* lines 104-121: the row INSERT INTO grants stores for grant object g
GrantRow(id, g) ==
    [id |-> id,
     issuer |-> g.issuer, title |-> g.title, cash_prize |-> g.cash_prize,
     entry_fee |-> g.entry_fee, deadline |-> g.deadline, genres |-> g.genres,
     description |-> g.description, read_more_link |-> g.read_more_link,
     extra_info |-> IF "extra_info" \in DOMAIN g THEN g.extra_info ELSE Null]

\* GenreManager.get_genre_id
GetGenreId(ge, name) ==
    IF \E i \in 1..Len(ge) : ge[i].name = name
    THEN ge[CHOOSE i \in 1..Len(ge) : ge[i].name = name].id
    ELSE NoId

\* add_genre were it INSERT OR REPLACE: the row of a registered name is
\* deleted and written again under a new id
AddGenreReplace(db, name) ==
    LET id == NextId(db.sqlite_sequence.genres)
    IN  [db EXCEPT !.sqlite_sequence.genres = id,
                   !.genres = Append(SelectSeq(@, LAMBDA r : r.name # name),
                                     [id |-> id, name |-> name])]

\* GenreManager.add_genre: INSERT OR IGNORE against UNIQUE(name). sqlite
\* draws the new id, and advances the table's AUTOINCREMENT counter, before it
\* meets the conflict, so an ignored INSERT uses an id up
AddGenre(db, name) ==
    LET id == NextId(db.sqlite_sequence.genres)
    IN  IF \E i \in 1..Len(db.genres) : db.genres[i].name = name
        THEN [db EXCEPT !.sqlite_sequence.genres = id]
        ELSE [db EXCEPT !.sqlite_sequence.genres = id,
                        !.genres = Append(@, [id |-> id, name |-> name])]

\* link_grant_to_genre were it a plain INSERT into a table without
\* UNIQUE(grant_id, genre_id)
LinkAlways(db, grant_id, name) ==
    LET genre_id == GetGenreId(db.genres, name)
    IN  IF genre_id # NoId
        THEN [db EXCEPT !.grant_genre =
                  Append(@, [grant_id |-> grant_id, genre_id |-> genre_id])]
        ELSE db

\* GenreManager.link_grant_to_genre: INSERT OR IGNORE against
\* UNIQUE(grant_id, genre_id), and only when the name is registered
LinkGrantToGenre(db, grant_id, name) ==
    LET genre_id == GetGenreId(db.genres, name)
        row == [grant_id |-> grant_id, genre_id |-> genre_id]
    IN  IF genre_id # NoId /\ row \notin Range(db.grant_genre)
        THEN [db EXCEPT !.grant_genre = Append(@, row)]
        ELSE db

\* the join were it written without "WHERE gg.grant_id = ?"
LinksOfAny(db, grant_id) == db.grant_genre

\* the grant_genre rows of one grant
LinksOf(db, grant_id) ==
    SelectSeq(db.grant_genre, LAMBDA r : r.grant_id = grant_id)

\* rows of grant_genre in the order of the index sqlite keeps for
\* UNIQUE(grant_id, genre_id): ascending genre_id
RECURSIVE ByGenreId(_)
ByGenreId(rows) ==
    IF rows = <<>> THEN <<>>
    ELSE LET m == CHOOSE x \in {rows[i].genre_id : i \in 1..Len(rows)} :
                      \A i \in 1..Len(rows) : x <= rows[i].genre_id
         IN  SelectSeq(rows, LAMBDA r : r.genre_id = m)
             \o ByGenreId(SelectSeq(rows, LAMBDA r : r.genre_id # m))

\* GenreManager.get_genres_for_grant: the join of genres and grant_genre for
\* one grant: the name of the genres row of each of the grant's grant_genre
\* rows. No ORDER BY is given; sqlite walks the grant's rows through the
\* index of UNIQUE(grant_id, genre_id) and looks each genre up by its id
GetGenresForGrant(db, grant_id) ==
    LET joined == SelectSeq(ByGenreId(LinksOf(db, grant_id)),
                      LAMBDA r : \E i \in 1..Len(db.genres) :
                                     db.genres[i].id = r.genre_id)
    IN  [k \in 1..Len(joined) |->
            db.genres[CHOOSE i \in 1..Len(db.genres) :
                          db.genres[i].id = joined[k].genre_id].name]

\* lines 124-128: add_genre then link_grant_to_genre for each piece, in order
RECURSIVE RegisterGenres(_, _, _)
RegisterGenres(db, grant_id, pieces) ==
    IF pieces = <<>> THEN db
    ELSE RegisterGenres(
             LinkGrantToGenre(AddGenre(db, Head(pieces)), grant_id, Head(pieces)),
             grant_id, Tail(pieces))

\* a Python function that returns no value returns None; a returned value x
\* is modelled as <<x>>
None == <<>>

\* lines 100-130 hold no return statement: insert_grant returns None however
\* the INSERT went
InsertReturn(outcome, id) == None

\* the INSERT were the table created without UNIQUE(issuer, title, deadline)
ExecuteInsertNoUnique(rows, g, fault) ==
    IF fault = "unavailable" THEN "OperationalError"
    ELSE IF fault = "constraint" THEN "IntegrityError"
    ELSE "ok"

\* line 121: what conn.execute(INSERT INTO grants ...) raises. sqlite3 raises
\* IntegrityError for every constraint violation (the natural key's UNIQUE or
\* any other constraint the database file carries) and OperationalError when
\* the storage medium fails; fault is what the storage engine met:
\* "none", "constraint" (a violation unrelated to the natural key) or
\* "unavailable"
ExecuteInsert(rows, g, fault) ==
    IF fault = "unavailable" THEN "OperationalError"
    ELSE IF KeyExists(rows, g) \/ fault = "constraint" THEN "IntegrityError"
    ELSE "ok"

\* line 130
GrantAlreadyExists(g) ==
    [kind |-> "Grant already exists", title |-> g.title, issuer |-> g.issuer,
     deadline |-> g.deadline]

\* lines 121-128 when the INSERT raises nothing: the new row, then its genres
\* (line 123: last_insert_rowid() is the id of the row just stored)
StoreGrant(db, g) ==
    LET id == NextId(db.sqlite_sequence.grants)
    IN  RegisterGenres([db EXCEPT !.sqlite_sequence.grants = id,
                                  !.grants = Append(@, GrantRow(id, g))],
                       id, GenrePieces(g.genres))

\* insert_grant were the genre loop placed before the INSERT is known to have
\* gone through
InsertGrantGenresFirst(db, g, fault) ==
    LET exc == ExecuteInsert(db.grants, g, fault)
        id == NextId(db.sqlite_sequence.grants)
        reg == RegisterGenres(db, id, GenrePieces(g.genres))
    IN  IF exc = "ok"
        THEN [db |-> StoreGrant(db, g), outcome |-> "stored",
              id |-> id, raised |-> "none",
              ret |-> InsertReturn("stored", id), printed |-> <<>>]
        ELSE IF exc = "IntegrityError"
        THEN [db |-> reg, outcome |-> "skipped", id |-> NoId, raised |-> "none",
              ret |-> InsertReturn("skipped", NoId),
              printed |-> <<GrantAlreadyExists(g)>>]
        ELSE [db |-> db, outcome |-> "raised", id |-> NoId, raised |-> exc,
              ret |-> None, printed |-> <<>>]

\* Database.insert_grant as one call: the tables afterwards and what the
\* caller sees. An IntegrityError is caught at line 129 and printed as a
\* duplicate; any other exception leaves the with-block, which rolls the
\* transaction back, and reaches the caller
InsertGrant(db, g, fault) ==
    LET exc == ExecuteInsert(db.grants, g, fault)
    IN  IF exc = "ok"
        THEN [db |-> StoreGrant(db, g), outcome |-> "stored",
              id |-> NextId(db.sqlite_sequence.grants), raised |-> "none",
              ret |-> InsertReturn("stored", NextId(db.sqlite_sequence.grants)),
              printed |-> <<>>]
        ELSE IF exc = "IntegrityError"
        THEN [db |-> db, outcome |-> "skipped", id |-> NoId, raised |-> "none",
              ret |-> InsertReturn("skipped", NoId),
              printed |-> <<GrantAlreadyExists(g)>>]
        ELSE [db |-> db, outcome |-> "raised", id |-> NoId, raised |-> exc,
              ret |-> None, printed |-> <<>>]

\* lines 215-216: insert_grant for every grant of a list, in order, on a
\* healthy store
RECURSIVE InsertAll(_, _)
InsertAll(db, gs) ==
    IF gs = <<>> THEN db
    ELSE InsertAll(InsertGrant(db, Head(gs), "none").db, Tail(gs))

\* Database.fetch_all_grants: every grants row with its genre names
FetchAllGrants(db) ==
    [i \in 1..Len(db.grants) |->
        <<db.grants[i], GetGenresForGrant(db, db.grants[i].id)>>]

-----------------------------------------------------------------------------
(* Inputs of the store-level specifications *)

Fiction == <<"F", "i", "c", "t", "i", "o", "n">>
Poetry == <<"P", "o", "e", "t", "r", "y">>
SciFi == <<"S", "c", "i", " ", "F", "i">>

\* "Fiction, , Poetry,Fiction"
ExampleGenres == Fiction \o <<",", " ", ",", " ">> \o Poetry \o <<",">> \o Fiction

\* a description and a genres text
Variants ==
    { <<<<"x">>, ExampleGenres>>,
      <<<<"y">>, <<" ">> \o Poetry \o <<" ", ",">> \o SciFi \o <<"\t">>>>,
                                              \* " Poetry ,Sci Fi\t"
      <<<<"x">>, <<>>>>,                      \* ""
      <<<<"y">>, <<",", "\r", ",", "\f">>>> }
                                   \* comma, carriage return, comma, form feed

\* add_genre is not called directly once the AUTOINCREMENT counter of genres
\* stands here
MaxGenreIds == 5

\* natural keys that differ from the first in exactly one component
Keys == { <<<<"A">>, <<"T">>, <<"1">>>>, <<<<"B">>, <<"T">>, <<"1">>>>,
          <<<<"A">>, <<"U">>, <<"1">>>>, <<<<"A">>, <<"T">>, <<"2">>>> }

BaseOrigin == <<"h", "t", "t", "p", "s", ":", "/", "/",
                "w", "w", "w", ".", "p", "w", ".", "o", "r", "g">>

\* Grant objects handed to insert_grant
Grants ==
    { [issuer |-> k[1], title |-> k[2], deadline |-> k[3],
       cash_prize |-> <<"$", "1">>, entry_fee |-> <<"$", "0">>,
       genres |-> v[2], description |-> v[1],
       read_more_link |-> BaseOrigin \o <<"/", "g">>] :
      k \in Keys, v \in Variants }

Faults == {"none", "constraint", "unavailable"}

-----------------------------------------------------------------------------
(* State after construction *)

NoCall == [op |-> "none", grant |-> <<>>, fault |-> "none", outcome |-> "none",
           id |-> NoId, raised |-> "none", ret |-> None, printed |-> <<>>]

NoResponse == [status |-> 0, rows |-> <<>>]

NoSequence == [grants |-> 0, genres |-> 0]

Store == DB(grants, genres, grant_genre, sqlite_sequence)

\* Database('grants.db') on a fresh file: three empty tables
InitStore ==
    /\ grants = <<>>
    /\ genres = <<>>
    /\ grant_genre = <<>>
    /\ sqlite_sequence = NoSequence
    /\ last = NoCall
    /\ pre = DB(<<>>, <<>>, <<>>, NoSequence)

\* scrape_grants about to enter its loop, lines 148-154
InitCrawl ==
    /\ pc = "request"
    /\ page = 0
    /\ response = NoResponse
    /\ grants_list = <<>>
    /\ requests = <<>>
    /\ output = <<>>
    /\ site = <<>>
    /\ pos = 0
    /\ rows_at_start = 0
    /\ rerun = FALSE

Init == InitStore /\ InitCrawl

\* the effect of one insert_grant call on the tables and on the call record
DoInsert(g, fault) ==
    LET r == InsertGrant(Store, g, fault)
    IN  /\ grants' = r.db.grants
        /\ genres' = r.db.genres
        /\ grant_genre' = r.db.grant_genre
        /\ sqlite_sequence' = r.db.sqlite_sequence
        /\ pre' = Store
        /\ last' = [op |-> "insert_grant", grant |-> g, fault |-> fault,
                    outcome |-> r.outcome, id |-> r.id, raised |-> r.raised,
                    ret |-> r.ret, printed |-> r.printed]

-----------------------------------------------------------------------------
(* Spec: any sequence of insert_grant calls on a healthy store *)

InsertGrantCall(g) ==
    /\ Len(InsertGrant(Store, g, "none").db.grants) <= MaxGrants
    /\ DoInsert(g, "none")
    /\ UNCHANGED crawl

Next == \E g \in Grants : InsertGrantCall(g)

Spec == Init /\ [][Next]_vars

(* SpecFault: the same calls on a store whose engine may fail the INSERT *)

InsertGrantFault(g, fault) ==
    /\ Len(InsertGrant(Store, g, fault).db.grants) <= MaxGrants
    /\ DoInsert(g, fault)
    /\ UNCHANGED crawl

NextFault == \E g \in Grants, fault \in Faults : InsertGrantFault(g, fault)

SpecFault == Init /\ [][NextFault]_vars

(* SpecVocab: the public methods of Database and GenreManager called in any
   order: insert_grant, add_genre, link_grant_to_genre, fetch_all_grants *)

\* genre names handed to add_genre and link_grant_to_genre: two that differ
\* in case alone
NamesGiven == {Fiction, <<"f", "i", "c", "t", "i", "o", "n">>}

\* the grant id handed to link_grant_to_genre: that of the first grant, before
\* and after it is stored (the schema declares the foreign keys but sqlite
\* does not enforce them without PRAGMA foreign_keys, so an id without a
\* grants row is accepted)
GrantIdsGiven == {1}

\* Grant objects handed to insert_grant: two natural keys, two genres texts
VocabGrants ==
    { g \in Grants :
        /\ NaturalKey(g) \in { <<<<"A">>, <<"T">>, <<"1">>>>,
                               <<<<"B">>, <<"T">>, <<"1">>>> }
        /\ g.genres # <<>>
        /\ g.description = <<"x">> \/ SciFi \in Range(GenrePieces(g.genres)) }

InsertGrantVocab(g) ==
    /\ Len(InsertGrant(Store, g, "none").db.grants) <= MaxGrants
    /\ DoInsert(g, "none")
    /\ UNCHANGED crawl

\* the effect of a GenreManager call that leaves the store as db
DoGenreCall(db) ==
    /\ grants' = db.grants
    /\ genres' = db.genres
    /\ grant_genre' = db.grant_genre
    /\ sqlite_sequence' = db.sqlite_sequence
    /\ pre' = Store

\* genre_manager.add_genre(name), lines 46-50: no exception, no return value
AddGenreCall(name) ==
    /\ sqlite_sequence.genres < MaxGenreIds
    /\ DoGenreCall(AddGenre(Store, name))
    /\ last' = [op |-> "add_genre", name |-> name,
                raised |-> "none", ret |-> None]
    /\ UNCHANGED crawl

\* genre_manager.link_grant_to_genre(grant_id, name), lines 59-66
LinkCall(grant_id, name) ==
    /\ DoGenreCall(LinkGrantToGenre(Store, grant_id, name))
    /\ last' = [op |-> "link_grant_to_genre", grant_id |-> grant_id,
                name |-> name, raised |-> "none", ret |-> None]
    /\ UNCHANGED crawl

\* db.fetch_all_grants(), lines 132-141
FetchAllCall ==
    /\ last' = [op |-> "fetch_all_grants", raised |-> "none",
                ret |-> FetchAllGrants(Store)]
    /\ pre' = Store
    /\ UNCHANGED <<tables, crawl>>

NextVocab ==
    \/ \E g \in VocabGrants : InsertGrantVocab(g)
    \/ \E name \in NamesGiven : AddGenreCall(name)
    \/ \E grant_id \in GrantIdsGiven, name \in NamesGiven :
           LinkCall(grant_id, name)
    \/ FetchAllCall

SpecVocab == Init /\ [][NextVocab]_vars


-----------------------------------------------------------------------------
(* The crawl: scrape_grants and the top-level run *)

\* line 162: the one status the crawl goes on after
StatusOk == 200

\* a raw field-set is what one div.views-row holds: for each field the text of
\* its element (the href for read_more_link), or Absent when the element the
\* code looks up with find() is not in the row
Absent == <<"absent">>

Fields == {"issuer", "title", "cash_prize", "entry_fee", "deadline", "genres",
           "description", "read_more_link"}

\* lines 181-189: find() returns None for an element that is not there, and
\* the next .find / .text / ['href'] on None raises
Malformed(raw) == \E f \in Fields : raw[f] = Absent

\* the Grant object were line 199 to keep the href as found
CanonicalRawLink(raw) ==
    [issuer |-> Strip(raw.issuer), title |-> Strip(raw.title),
     cash_prize |-> Strip(raw.cash_prize), entry_fee |-> Strip(raw.entry_fee),
     deadline |-> Strip(raw.deadline), genres |-> Strip(raw.genres),
     description |-> Strip(raw.description),
     read_more_link |-> raw.read_more_link]

\* lines 181-200: the Grant object built from a well-formed raw field-set
Canonical(raw) ==
    [issuer |-> Strip(raw.issuer), title |-> Strip(raw.title),
     cash_prize |-> Strip(raw.cash_prize), entry_fee |-> Strip(raw.entry_fee),
     deadline |-> Strip(raw.deadline), genres |-> Strip(raw.genres),
     description |-> Strip(raw.description),
     read_more_link |-> BaseOrigin \o raw.read_more_link]

\* lines 180-201 over the rows of one page: the Grant objects appended to
\* grants_list before the loop ends or a malformed row raises
RECURSIVE Extracted(_)
Extracted(rows) ==
    IF rows = <<>> \/ Malformed(Head(rows)) THEN <<>>
    ELSE <<Canonical(Head(rows))>> \o Extracted(Tail(rows))

RawA ==
    [issuer |-> <<" ", "A">>, title |-> <<"T">>, cash_prize |-> <<"$", "1">>,
     entry_fee |-> <<"$", "0">>, deadline |-> <<"1">>,
     genres |-> Fiction \o <<",", " ">> \o Poetry \o <<" ">>,
     description |-> <<"x">>, read_more_link |-> <<"/", "a">>]

\* the natural key of RawA once stripped; other fields differ
RawA2 ==
    [issuer |-> <<"A", "\r", "\n">>, title |-> <<"T">>,
     cash_prize |-> <<"$", "2">>,
     entry_fee |-> <<"$", "0">>, deadline |-> <<"1">>,
     genres |-> SciFi,
     description |-> <<"y">>, read_more_link |-> <<"/", "b">>]

RawB ==
    [issuer |-> <<"B">>, title |-> <<"T">>, cash_prize |-> <<"$", "1">>,
     entry_fee |-> <<"$", "0">>, deadline |-> <<"1">>,
     genres |-> Poetry \o <<",">> \o Poetry,
     description |-> <<"x">>,
     read_more_link |-> <<"/", "g", "r", "a", "n", "t", "s", "/", "1", "2", "3">>]

\* a row without its deadline element
RawBad ==
    [issuer |-> <<"C">>, title |-> <<"T">>, cash_prize |-> <<"$", "1">>,
     entry_fee |-> <<"$", "0">>, deadline |-> Absent,
     genres |-> Poetry,
     description |-> <<"x">>, read_more_link |-> <<"/", "d">>]

\* what the extractor may find on a page
PageBodies ==
    { <<>>, <<RawA>>, <<RawB>>, <<RawA, RawA2>>, <<RawB, RawA>>,
      <<RawA2, RawB>>, <<RawBad>>, <<RawA, RawBad, RawB>> }

\* what requests.get may return: a page, or a status other than 200
Responses ==
    { [status |-> StatusOk, rows |-> b] : b \in PageBodies }
    \cup { [status |-> c, rows |-> <<>>] : c \in {404, 500} }

\* lines 158-159: the page is requested. A run over data already served is
\* served the same data again
Request ==
    /\ pc = "request"
    /\ page < MaxPages
    /\ \E r \in Responses :
        /\ page < Len(site) => r = site[page + 1]
        /\ response' = r
        /\ site' = IF page < Len(site) THEN site ELSE Append(site, r)
    /\ requests' = Append(requests, page)
    /\ pc' = "process"
    /\ UNCHANGED <<tables, last, pre, page, grants_list, output, pos,
                   rows_at_start, rerun>>

\* lines 162-164 were they to try the page again ("continue")
ProcessFailureRetries ==
    /\ pc = "process"
    /\ response.status # StatusOk
    /\ output' = Append(output, [kind |-> "Failed to retrieve the page",
                                 status |-> response.status])
    /\ pc' = "request"
    /\ UNCHANGED <<tables, last, pre, page, response, grants_list, requests,
                   site, pos, rows_at_start, rerun>>

\* lines 162-164 were they to give up what was collected ("return []")
ProcessFailureDiscards ==
    /\ pc = "process"
    /\ response.status # StatusOk
    /\ output' = Append(output, [kind |-> "Failed to retrieve the page",
                                 status |-> response.status])
    /\ grants_list' = <<>>
    /\ pc' = "insert"
    /\ UNCHANGED <<tables, last, pre, page, response, requests,
                   site, pos, rows_at_start, rerun>>

\* lines 162-164: a status other than 200 ends the loop
ProcessFailure ==
    /\ pc = "process"
    /\ response.status # StatusOk
    /\ output' = Append(output, [kind |-> "Failed to retrieve the page",
                                 status |-> response.status])
    /\ pc' = "insert"
    /\ UNCHANGED <<tables, last, pre, page, response, grants_list, requests,
                   site, pos, rows_at_start, rerun>>

\* lines 173-175 without the break
ProcessEmptyGoesOn ==
    /\ pc = "process"
    /\ response.status = StatusOk
    /\ Len(response.rows) = 0
    /\ output' = Append(output, [kind |-> "No more grants found on page",
                                 page |-> page])
    /\ page' = page + 1
    /\ pc' = "request"
    /\ UNCHANGED <<tables, last, pre, response, grants_list, requests,
                   site, pos, rows_at_start, rerun>>

\* lines 170-175: a page without rows ends the loop
ProcessEmpty ==
    /\ pc = "process"
    /\ response.status = StatusOk
    /\ Len(response.rows) = 0
    /\ output' = Append(output, [kind |-> "No more grants found on page",
                                 page |-> page])
    /\ pc' = "insert"
    /\ UNCHANGED <<tables, last, pre, page, response, grants_list, requests,
                   site, pos, rows_at_start, rerun>>

\* lines 177-204 were the loop to stop by itself after its second page
ProcessRowsCapped ==
    /\ pc = "process"
    /\ response.status = StatusOk
    /\ Len(response.rows) > 0
    /\ \A i \in 1..Len(response.rows) : ~Malformed(response.rows[i])
    /\ output' = Append(output, [kind |-> "Number of grants found on page",
                                 page |-> page, n |-> Len(response.rows)])
    /\ grants_list' = grants_list \o Extracted(response.rows)
    /\ page' = page + 1
    /\ pc' = IF page >= 1 THEN "insert" ELSE "request"
    /\ UNCHANGED <<tables, last, pre, response, requests, site, pos,
                   rows_at_start, rerun>>

\* lines 177-204 were each Grant object handed to insert_grant as soon as it
\* is built
ProcessRowsStores ==
    /\ pc = "process"
    /\ response.status = StatusOk
    /\ Len(response.rows) > 0
    /\ \A i \in 1..Len(response.rows) : ~Malformed(response.rows[i])
    /\ output' = Append(output, [kind |-> "Number of grants found on page",
                                 page |-> page, n |-> Len(response.rows)])
    /\ grants_list' = grants_list \o Extracted(response.rows)
    /\ page' = page + 1
    /\ pc' = "request"
    /\ LET db == InsertAll(Store, Extracted(response.rows))
       IN  /\ grants' = db.grants
           /\ genres' = db.genres
           /\ grant_genre' = db.grant_genre
           /\ sqlite_sequence' = db.sqlite_sequence
    /\ UNCHANGED <<last, pre, response, requests, site, pos,
                   rows_at_start, rerun>>

\* lines 177-204: every row of the page becomes a Grant object; then the next
\* page
ProcessRows ==
    /\ pc = "process"
    /\ response.status = StatusOk
    /\ Len(response.rows) > 0
    /\ \A i \in 1..Len(response.rows) : ~Malformed(response.rows[i])
    /\ output' = Append(output, [kind |-> "Number of grants found on page",
                                 page |-> page, n |-> Len(response.rows)])
    /\ grants_list' = grants_list \o Extracted(response.rows)
    /\ page' = page + 1
    /\ pc' = "request"
    /\ UNCHANGED <<tables, last, pre, response, requests, site, pos,
                   rows_at_start, rerun>>

\* lines 181-189 on a malformed row: the exception is caught nowhere, leaves
\* scrape_grants and ends the process before line 215
ProcessRaise ==
    /\ pc = "process"
    /\ response.status = StatusOk
    /\ \E i \in 1..Len(response.rows) : Malformed(response.rows[i])
    /\ output' = Append(output, [kind |-> "Number of grants found on page",
                                 page |-> page, n |-> Len(response.rows)])
    /\ grants_list' = grants_list \o Extracted(response.rows)
    /\ pc' = "crashed"
    /\ UNCHANGED <<tables, last, pre, page, response, requests, site, pos,
                   rows_at_start, rerun>>

\* lines 215-216: the next accumulated grant is handed to insert_grant
InsertNext ==
    /\ pc = "insert"
    /\ pos < Len(grants_list)
    /\ DoInsert(grants_list[pos + 1], "none")
    /\ pos' = pos + 1
    /\ output' = output \o InsertGrant(Store, grants_list[pos + 1], "none").printed
    /\ UNCHANGED <<pc, page, response, grants_list, requests, site,
                   rows_at_start, rerun>>

\* lines 219-225: the loop is over; every stored grant is printed with its
\* genres and the connection is closed
Dump ==
    /\ pc = "insert"
    /\ pos = Len(grants_list)
    /\ output' = Append(output, [kind |-> "dump", all_grants |-> FetchAllGrants(Store)])
    /\ pc' = "finished"
    /\ UNCHANGED <<tables, last, pre, page, response, grants_list, requests,
                   site, pos, rows_at_start, rerun>>

\* the program is started again on the same grants.db and the same site:
\* lines 209 (CREATE TABLE IF NOT EXISTS keeps the tables) and 148-154
Rerun ==
    /\ pc \in {"finished", "crashed"}
    /\ pc' = "request"
    /\ page' = 0
    /\ response' = NoResponse
    /\ grants_list' = <<>>
    /\ requests' = <<>>
    /\ output' = <<>>
    /\ pos' = 0
    /\ rows_at_start' = Len(grants)
    /\ rerun' = TRUE
    /\ last' = NoCall
    /\ pre' = Store
    /\ UNCHANGED <<tables, site>>

Process == ProcessFailure \/ ProcessEmpty \/ ProcessRows \/ ProcessRaise

\* one turn of the while loop of scrape_grants
Crawl == Request \/ Process

NextRun == Crawl \/ InsertNext \/ Dump \/ Rerun

\* the top-level program, run and run again
SpecRun == Init /\ [][NextRun]_vars

\* the program is sequential: inside the loop of scrape_grants the statement
\* that is next is executed (the request is taken to return)
FairRun == SpecRun /\ WF_vars(Crawl)

\* the controller of the crawl
CRAWLING == pc \in {"request", "process"}
DONE == pc \in {"insert", "finished"}

-----------------------------------------------------------------------------
(* SpecCrash: the run with insert_grant taken one write at a time, the
   process liable to be killed between any two writes, and started again.
   sqlite3 opens a transaction at the INSERT of line 121; the with-block of
   add_genre (line 47) is the first to commit it, every later with-block
   commits its own write, and the with-block of insert_grant commits at its
   end. What is not committed when the process is killed is rolled back when
   the file is next opened. *)

\* insert_grant has written the grants row and has not returned
Running == last.op = "insert_grant" /\ last.outcome = "running"

SetTables(db) ==
    /\ grants' = db.grants
    /\ genres' = db.genres
    /\ grant_genre' = db.grant_genre
    /\ sqlite_sequence' = db.sqlite_sequence

\* lines 100-124, 129-130: insert_grant is called for the next grant and
\* executes its INSERT. A collision is caught and printed and the call is
\* over; otherwise the row is written, not yet committed, and the genre loop
\* is entered
BeginInsert ==
    /\ pc = "insert"
    /\ ~Running
    /\ pos < Len(grants_list)
    /\ LET g == grants_list[pos + 1]
           id == NextId(sqlite_sequence.grants)
       IN  IF ExecuteInsert(grants, g, "none") = "ok"
           THEN /\ SetTables([Store EXCEPT !.sqlite_sequence.grants = id,
                                           !.grants = Append(@, GrantRow(id, g))])
                /\ last' = [op |-> "insert_grant", grant |-> g,
                            fault |-> "none", outcome |-> "running",
                            id |-> id, raised |-> "none", ret |-> None,
                            printed |-> <<>>,
                            todo |-> GenrePieces(g.genres),
                            at |-> "add_genre", dirty |-> TRUE]
                /\ UNCHANGED <<pos, output>>
           ELSE /\ UNCHANGED tables
                /\ last' = [op |-> "insert_grant", grant |-> g,
                            fault |-> "none", outcome |-> "skipped",
                            id |-> NoId, raised |-> "none",
                            ret |-> InsertReturn("skipped", NoId),
                            printed |-> <<GrantAlreadyExists(g)>>]
                /\ pos' = pos + 1
                /\ output' = Append(output, GrantAlreadyExists(g))
    /\ pre' = Store
    /\ UNCHANGED <<pc, page, response, grants_list, requests, site,
                   rows_at_start, rerun>>

\* line 127: add_genre for the next piece; its with-block commits
EnsureGenre ==
    /\ pc = "insert"
    /\ Running
    /\ last.todo # <<>>
    /\ last.at = "add_genre"
    /\ SetTables(AddGenre(Store, Head(last.todo)))
    /\ last' = [last EXCEPT !.at = "link_grant_to_genre", !.dirty = FALSE]
    /\ UNCHANGED <<pre, crawl>>

\* line 128: link_grant_to_genre for that piece; its with-block commits
LinkGenre ==
    /\ pc = "insert"
    /\ Running
    /\ last.at = "link_grant_to_genre"
    /\ SetTables(LinkGrantToGenre(Store, last.id, Head(last.todo)))
    /\ last' = [last EXCEPT !.at = "add_genre", !.todo = Tail(@)]
    /\ UNCHANGED <<pre, crawl>>

\* the end of the with-block of line 102: commit, and insert_grant returns
EndInsert ==
    /\ pc = "insert"
    /\ Running
    /\ last.todo = <<>>
    /\ last' = [op |-> "insert_grant", grant |-> last.grant,
                fault |-> "none", outcome |-> "stored", id |-> last.id,
                raised |-> "none", ret |-> InsertReturn("stored", last.id),
                printed |-> <<>>]
    /\ pos' = pos + 1
    /\ UNCHANGED <<tables, pre, pc, page, response, grants_list, requests,
                   output, site, rows_at_start, rerun>>

\* the process is killed while it persists (lines 215-216). The file keeps
\* what was committed: everything but a grants row whose INSERT no
\* with-block has committed yet
Kill ==
    /\ pc = "insert"
    /\ pos < Len(grants_list)
    /\ LET kept == IF Running /\ last.dirty THEN pre ELSE Store
       IN  SetTables(kept) /\ pre' = kept
    /\ last' = NoCall
    /\ pc' = "crashed"
    /\ UNCHANGED <<page, response, grants_list, requests, output, site, pos,
                   rows_at_start, rerun>>

NextCrash ==
    \/ Crawl
    \/ BeginInsert \/ EnsureGenre \/ LinkGenre \/ EndInsert
    \/ Kill
    \/ Dump
    \/ Rerun

SpecCrash == Init /\ [][NextCrash]_vars

-----------------------------------------------------------------------------
(* Claims about the store *)

IsInsert == last.op = "insert_grant"

\* the call found the natural key of its record in the table
Collided == IsInsert /\ KeyExists(pre.grants, last.grant)

\* C1: natural-key uniqueness: in every state reached by insert_grant calls
\* with text-valued issuer, title and deadline, no two rows of grants share
\* the same (issuer, title, deadline).
C1_NaturalKeyUnique ==
    \A i, j \in 1..Len(grants) :
        i # j => NaturalKey(grants[i]) # NaturalKey(grants[j])

\* two rows are stored and a third record, whose key is one of theirs but
\* whose other fields are not, has been turned away
C1_Witness ==
    /\ Len(grants) = 2
    /\ Collided
    /\ ~SameRecordExists(grants, last.grant)

\* C2: a rejected duplicate changes nothing: when insert_grant is called with
\* a record whose natural key is already stored, grants, genres and
\* grant_genre (and sqlite's id counters) are the same after the call as
\* before, whatever the record's other fields and genres text are.
C2_DuplicateChangesNothing ==
    Collided =>
        /\ grants = pre.grants
        /\ genres = pre.genres
        /\ grant_genre = pre.grant_genre
        /\ sqlite_sequence = pre.sqlite_sequence

\* a duplicate was turned away whose description and genres text differ from
\* the stored row's and whose genres text names a genre not yet registered
C2_Witness ==
    /\ Collided
    /\ ~SameRecordExists(grants, last.grant)
    /\ \E n \in Range(GenrePieces(last.grant.genres)) :
           GetGenreId(genres, n) = NoId

\* the genre names a genres text stands for, said without split and strip: the
\* stretches of the text that hold no comma, begin and end with a character
\* that is not whitespace, and are separated from the comma (or the end of
\* the text) on either side by whitespace alone
GenreNames(text) ==
    { SubSeq(text, a, b) : <<a, b>> \in
        { ab \in (1..Len(text)) \X (1..Len(text)) :
            /\ ab[1] <= ab[2]
            /\ \A k \in ab[1]..ab[2] : text[k] # ","
            /\ text[ab[1]] \notin Whitespace
            /\ text[ab[2]] \notin Whitespace
            /\ \E l \in 0..(ab[1] - 1) :
                 /\ l = 0 \/ text[l] = ","
                 /\ \A k \in (l + 1)..(ab[1] - 1) : text[k] \in Whitespace
            /\ \E r \in (ab[2] + 1)..(Len(text) + 1) :
                 /\ r = Len(text) + 1 \/ text[r] = ","
                 /\ \A k \in (ab[2] + 1)..(r - 1) : text[k] \in Whitespace } }

\* C8: genre split correctness: the genre names get_genres_for_grant returns
\* for a stored grant are exactly the non-empty, whitespace-trimmed
\* comma-separated pieces of its genres text, each once: "Fiction, , Poetry,
\* Fiction" gives {Fiction, Poetry}, the empty text gives none.
C8_GenreSplit ==
    \A i \in 1..Len(grants) :
        LET names == Range(GetGenresForGrant(Store, grants[i].id))
        IN  /\ names = GenreNames(grants[i].genres)
            /\ grants[i].genres = ExampleGenres => names = {Fiction, Poetry}
            /\ grants[i].genres = <<>> => names = {}

\* the grant just stored has the genres text "Fiction, , Poetry,Fiction" and
\* get_genres_for_grant returns Fiction and Poetry for it
C8_Witness ==
    /\ IsInsert
    /\ last.outcome = "stored"
    /\ last.grant.genres = ExampleGenres
    /\ Range(GetGenresForGrant(Store, last.id)) = {Fiction, Poetry}

\* C10 as stated: insert returns the newly assigned surrogate id when the
\* grant is stored and a DuplicateKey result when the natural key exists.
C10_TypedResult ==
    IsInsert =>
        /\ last.outcome = "stored" => last.ret = <<last.id>>
        /\ Collided => last.ret = <<"DuplicateKey">>

\* C7 as stated: only natural-key collisions are swallowed: a storage fault
\* during insert_grant that is not a collision on (issuer, title, deadline)
\* reaches the caller as an error and is not reported as a duplicate.
C7_OnlyCollisionsSwallowed ==
    (IsInsert /\ last.fault # "none" /\ ~Collided) =>
        /\ last.raised # "none"
        /\ last.printed = <<>>

-----------------------------------------------------------------------------
(* Claims about the run *)

\* page n has been requested in this run and the response dealt with
Handled(n) ==
    /\ n < Len(requests)
    /\ pc # "process" \/ n + 1 < Len(requests)

\* the Grant objects of pages 0 .. n-1 as served, in page and row order
RECURSIVE Collected(_)
Collected(n) ==
    IF n = 0 THEN <<>> ELSE Collected(n - 1) \o Extracted(site[n].rows)

\* every grant of gs is in the store: a row carries its natural key, and
\* that row holds the fields of the first grant of gs with that key
PersistedAll(gs) ==
    \A i \in 1..Len(gs) :
        LET f == CHOOSE j \in 1..i :
                    /\ NaturalKey(gs[j]) = NaturalKey(gs[i])
                    /\ \A k \in 1..(j - 1) : NaturalKey(gs[k]) # NaturalKey(gs[i])
        IN  \E r \in 1..Len(grants) : grants[r] = GrantRow(grants[r].id, gs[f])

\* the indexes 0 .. n
UpTo(n) == [k \in 1..(n + 1) |-> k - 1]

DuplicateLines ==
    SelectSeq(output, LAMBDA l : l.kind = "Grant already exists")

\* C3: idempotent re-ingest: a run of the whole pipeline over data a run has
\* already been made over leaves as many grants rows as it found; every
\* record of that run is reported as a duplicate and none is inserted.
C3_IdempotentReingest ==
    rerun =>
        /\ Len(grants) = rows_at_start
        /\ pc = "finished" =>
              /\ pos = Len(grants_list)
              /\ DuplicateLines =
                    [i \in 1..Len(grants_list) |->
                        GrantAlreadyExists(grants_list[i])]

\* a second run has finished over three records that the first run stored as
\* two rows
C3_Witness ==
    /\ rerun
    /\ pc = "finished"
    /\ Len(grants_list) >= 3
    /\ Len(grants) = 2

EmptyPage(r) == r.status = StatusOk /\ r.rows = <<>>

C4_Stops ==
    \A n \in 0..Len(site) :
        (Handled(n) /\ EmptyPage(site[n + 1])) =>
            /\ DONE
            /\ requests = UpTo(n)
            /\ grants_list = Collected(n)
            /\ pc = "finished" => PersistedAll(Collected(n))

\* C4: termination on an empty page: when the extractor finds no row on page
\* N, the crawl reaches DONE without page N+1 being requested, and at the
\* end of the run every grant of pages 0..N-1 is in the store.
C4_EmptyPageTerminates ==
    /\ []C4_Stops
    /\ (pc = "process" /\ EmptyPage(response)) ~> DONE

\* the run ended on the empty page 2 with grants of pages 0 and 1 stored
C4_Witness ==
    /\ pc = "finished"
    /\ ~rerun
    /\ requests = UpTo(2)
    /\ EmptyPage(site[3])
    /\ Len(grants) = 2
    /\ Len(Collected(2)) >= 3

C5_Stops ==
    \A n \in 0..Len(site) :
        (Handled(n) /\ site[n + 1].status # StatusOk) =>
            /\ DONE
            /\ requests = UpTo(n)
            /\ grants_list = Collected(n)
            /\ pc = "finished" => PersistedAll(Collected(n))

\* C5: termination on a fetch failure: when the fetcher returns a status
\* other than success for page N, the crawl reaches DONE without a further
\* request, the grants of pages 0..N-1 are kept, and at the end of the run
\* all of them are in the store.
C5_FetchFailureTerminates ==
    /\ []C5_Stops
    /\ (pc = "process" /\ response.status # StatusOk) ~> DONE

\* the run ended on the failure of page 2 with grants of pages 0 and 1 stored
C5_Witness ==
    /\ pc = "finished"
    /\ ~rerun
    /\ requests = UpTo(2)
    /\ site[3].status = 500
    /\ Len(grants) = 2
    /\ Len(Collected(2)) >= 3

\* C6 as stated: a raw field-set without a required field is skipped alone:
\* the crawl is not aborted, the other rows of its page are processed, and
\* every well-formed record is in the store at the end of the run.
C6_MalformedSkippedAlone ==
    /\ pc # "crashed"
    /\ \A n \in 0..Len(site) :
          (Handled(n) /\ site[n + 1].status = StatusOk) =>
              \A i \in 1..Len(site[n + 1].rows) :
                  ~Malformed(site[n + 1].rows[i]) =>
                      /\ Canonical(site[n + 1].rows[i]) \in Range(grants_list)
                      /\ pc = "finished" =>
                            KeyExists(grants, Canonical(site[n + 1].rows[i]))

Terminal(r) == r.status # StatusOk \/ r.rows = <<>>

\* C9: conditional termination: once the fetcher has returned a status other
\* than success or a page without rows, the controller reaches DONE; it is
\* never DONE otherwise: while every page served was a successful page with
\* rows it stays CRAWLING, whatever the page index (or has been ended by an
\* exception), so it puts no bound of its own on the number of pages.
C9_ConditionalTermination ==
    /\ (pc = "process" /\ Terminal(response)) ~> DONE
    /\ [](DONE => (requests # <<>> /\ Terminal(site[Len(requests)])))
    /\ []((\A k \in 1..Len(requests) : ~Terminal(site[k])) => ~DONE)
    /\ []((pc = "request" /\ page > 0) => ~Terminal(response))

\* the controller is DONE after the last page the model follows ended the
\* crawl, the earlier ones having been successful pages with rows
C9_Witness ==
    /\ DONE
    /\ Len(requests) = MaxPages
    /\ Terminal(response)
    /\ \A k \in 1..(Len(requests) - 1) : ~Terminal(site[k])

-----------------------------------------------------------------------------
(* Claims about the genre registry, the links and fetch_all_grants *)

Registered(ge, name) == \E i \in 1..Len(ge) : ge[i].name = name

\* the pair link_grant_to_genre would write for a grant id and a genre name
Pair(ge, grant_id, name) ==
    [grant_id |-> grant_id, genre_id |-> GetGenreId(ge, name)]

\* C11: genre registry idempotence: after any sequence of add_genre and
\* insert_grant calls the names in genres are pairwise distinct (compared
\* case-sensitively); add_genre with a name already registered raises no
\* error, leaves the genres table as it was and leaves the id get_genre_id
\* returns for that name what it was; no call changes a row genres holds.
C11_RegistryIdempotent ==
    /\ \A i, j \in 1..Len(genres) : genres[i].name = genres[j].name => i = j
    /\ Len(pre.genres) <= Len(genres)
    /\ \A i \in 1..Len(pre.genres) : genres[i] = pre.genres[i]
    /\ (last.op = "add_genre" /\ Registered(pre.genres, last.name)) =>
          /\ last.raised = "none"
          /\ genres = pre.genres
          /\ GetGenreId(genres, last.name) # NoId
          /\ GetGenreId(genres, last.name) = GetGenreId(pre.genres, last.name)

\* add_genre("Fiction") was called with "Fiction" and "fiction" both
\* registered, next to a stored grant; the ignored INSERT used an id up
C11_Witness ==
    /\ last.op = "add_genre"
    /\ last.name = Fiction
    /\ Registered(pre.genres, Fiction)
    /\ Registered(pre.genres, <<"f", "i", "c", "t", "i", "o", "n">>)
    /\ GetGenreId(genres, Fiction) #
           GetGenreId(genres, <<"f", "i", "c", "t", "i", "o", "n">>)
    /\ grants # <<>>
    /\ sqlite_sequence.genres > pre.sqlite_sequence.genres

\* C12: association idempotence: after any sequence of link_grant_to_genre
\* and insert_grant calls grant_genre holds each (grant_id, genre_id) pair at
\* most once; linking a grant to a genre it is already linked to leaves the
\* tables as they were; a stored grant is linked exactly once to each genre
\* its genres text names, also when the text repeats the name.
C12_LinkIdempotent ==
    /\ \A i, j \in 1..Len(grant_genre) :
          grant_genre[i] = grant_genre[j] => i = j
    /\ (/\ last.op = "link_grant_to_genre"
        /\ Pair(pre.genres, last.grant_id, last.name) \in Range(pre.grant_genre))
          => (Store = pre /\ last.raised = "none")
    /\ \A i \in 1..Len(grants) : \A n \in GenreNames(grants[i].genres) :
          Cardinality({ k \in 1..Len(grant_genre) :
              grant_genre[k] = Pair(genres, grants[i].id, n) }) = 1

\* the grant stored from "Fiction, , Poetry,Fiction" was linked to Fiction
\* once more by a direct call
C12_Witness ==
    /\ last.op = "link_grant_to_genre"
    /\ last.name = Fiction
    /\ Pair(pre.genres, last.grant_id, last.name) \in Range(pre.grant_genre)
    /\ \E i \in 1..Len(grants) :
          grants[i].id = last.grant_id /\ grants[i].genres = ExampleGenres

\* the names of the genres rows grant_genre links to a grant id
LinkedNames(grant_id) ==
    { genres[k].name : k \in { k \in 1..Len(genres) :
          [grant_id |-> grant_id, genre_id |-> genres[k].id]
              \in Range(grant_genre) } }

\* C13: fetch completeness: fetch_all_grants returns every stored grant
\* exactly once, in insertion order (ascending id), each paired with exactly
\* the genre names linked to that grant, each name once, and with no name
\* linked to another grant alone.
C13_FetchComplete ==
    last.op = "fetch_all_grants" =>
        LET r == last.ret
        IN  /\ Len(r) = Len(grants)
            /\ \A i \in 1..Len(grants) :
                  Cardinality({ k \in 1..Len(r) : r[k][1] = grants[i] }) = 1
            /\ \A i, j \in 1..Len(r) : i < j => r[i][1].id < r[j][1].id
            /\ \A i \in 1..Len(r) :
                  /\ r[i][1] \in Range(grants)
                  /\ Range(r[i][2]) = LinkedNames(r[i][1].id)
                  /\ Len(r[i][2]) = Cardinality(LinkedNames(r[i][1].id))

\* fetch_all_grants was called on two stored grants whose linked genres
\* differ, the first linked to "fiction" by a direct call as well
C13_Witness ==
    /\ last.op = "fetch_all_grants"
    /\ Len(last.ret) = 2
    /\ LinkedNames(1) # LinkedNames(2)
    /\ LinkedNames(2) # {}
    /\ <<"f", "i", "c", "t", "i", "o", "n">> \in LinkedNames(1)
    /\ Fiction \in LinkedNames(1)

-----------------------------------------------------------------------------
(* Claims about the crawl and the run *)

\* C14 as stated: when the fetch of page N returns a status other than
\* success, the failure line the crawl prints carries both the page index N
\* and the status code that was returned.
C14_FailureReportNamesPage ==
    \A k \in 1..Len(output) :
        output[k].kind = "Failed to retrieve the page" =>
            /\ output[k].status = site[Len(requests)].status
            /\ "page" \in DOMAIN output[k]
            /\ output[k].page = Len(requests) - 1

\* the rows of a page the row loop got through: those before the first that
\* lacks a required element
RECURSIVE Reached(_)
Reached(rows) ==
    IF rows = <<>> \/ Malformed(Head(rows)) THEN <<>>
    ELSE <<Head(rows)>> \o Reached(Tail(rows))

\* the raw field-sets of pages 0 .. n-1 that became Grant objects, in order
RECURSIVE RawsTaken(_)
RawsTaken(n) ==
    IF n = 0 THEN <<>> ELSE RawsTaken(n - 1) \o Reached(site[n].rows)

\* the number of pages whose response has been dealt with
HandledPages == IF pc = "process" THEN Len(requests) - 1 ELSE Len(requests)

\* a link that is a path on the site
Relative(link) == link # <<>> /\ link[1] = "/"

\* "https://www.pw.org/grants/123"
ExampleLink ==
    <<"h", "t", "t", "p", "s", ":", "/", "/", "w", "w", "w", ".", "p", "w",
      ".", "o", "r", "g", "/", "g", "r", "a", "n", "t", "s", "/", "1", "2",
      "3">>

\* C15: read-more link normalization: for a raw field-set whose link is a
\* relative path the read_more_link of the Grant object is the base origin of
\* the site, "https://www.pw.org", immediately followed by that path
\* ("/grants/123" gives "https://www.pw.org/grants/123"), and insert_grant
\* stores the link of the Grant object unchanged.
C15_LinkNormalised ==
    LET raws == RawsTaken(HandledPages)
    IN  /\ Len(grants_list) = Len(raws)
        /\ \A k \in 1..Len(raws) :
              LET path == raws[k].read_more_link
                  link == grants_list[k].read_more_link
              IN  Relative(path) =>
                    /\ Len(link) = 18 + Len(path)
                    /\ SubSeq(link, 1, 18) = BaseOrigin
                    /\ SubSeq(link, 19, Len(link)) = path
                    /\ path = <<"/", "g", "r", "a", "n", "t", "s", "/", "1",
                                "2", "3">> => link = ExampleLink
        /\ (IsInsert /\ last.outcome = "stored") =>
              /\ last.grant = grants_list[pos]
              /\ grants[Len(grants)].read_more_link =
                     grants_list[pos].read_more_link
        /\ \A r \in 1..Len(grants) :
              \E k \in 1..Len(site) : \E i \in 1..Len(site[k].rows) :
                  /\ ~Malformed(site[k].rows[i])
                  /\ NaturalKey(grants[r]) =
                         <<Strip(site[k].rows[i].issuer),
                           Strip(site[k].rows[i].title),
                           Strip(site[k].rows[i].deadline)>>
                  /\ grants[r].read_more_link =
                         BaseOrigin \o site[k].rows[i].read_more_link

\* the row served with the link "/grants/123" has been stored
C15_Witness ==
    /\ IsInsert
    /\ last.outcome = "stored"
    /\ grants[Len(grants)].read_more_link = ExampleLink
    /\ Len(grants) = 2

\* C16: association lifecycle: in every state reached by insert_grant calls
\* every grant_genre row references a grants row and a genres row that both
\* exist, and the name of that genre is one of the trimmed non-empty
\* comma-separated pieces of the genres text stored with that grant; rows of
\* grant_genre are added by a successful grant insert alone, for the grant
\* it stored, and none is ever removed or changed.
C16_AssociationLifecycle ==
    /\ \A k \in 1..Len(grant_genre) :
          \E i \in 1..Len(grants), j \in 1..Len(genres) :
              /\ grants[i].id = grant_genre[k].grant_id
              /\ genres[j].id = grant_genre[k].genre_id
              /\ genres[j].name \in GenreNames(grants[i].genres)
    /\ Len(pre.grant_genre) <= Len(grant_genre)
    /\ \A k \in 1..Len(pre.grant_genre) : grant_genre[k] = pre.grant_genre[k]
    /\ grant_genre # pre.grant_genre =>
          /\ IsInsert
          /\ last.outcome = "stored"
          /\ \A k \in (Len(pre.grant_genre) + 1)..Len(grant_genre) :
                grant_genre[k].grant_id = last.id

\* a second grant was stored and linked, one of its genres being a genre the
\* first grant is linked to
C16_Witness ==
    /\ IsInsert
    /\ last.outcome = "stored"
    /\ pre.grant_genre # <<>>
    /\ Len(grant_genre) > Len(pre.grant_genre) + 1
    /\ \E a \in Range(pre.grant_genre), b \in Range(grant_genre) :
          a.genre_id = b.genre_id /\ a.grant_id # b.grant_id

\* the program is started: the step Rerun takes
Started == pc \in {"finished", "crashed"} /\ pc' = "request"

\* C17: page-index protocol: the controller starts CRAWLING at index 0 and
\* requests the pages in the order 0, 1, 2, ..., none skipped and none
\* requested twice; the index goes up, by one, only when a successful page
\* with rows has been processed; DONE is terminal: once the first status
\* other than success or the first empty page has been seen, the run fetches
\* no page and never crawls again.
C17_PageProtocol ==
    /\ CRAWLING /\ page = 0 /\ requests = <<>>
    /\ [](requests = UpTo(Len(requests) - 1))
    /\ [](CRAWLING =>
            /\ page = HandledPages
            /\ \A k \in 1..page : ~Terminal(site[k]))
    /\ [][(pc = "request" /\ pc' = "process") =>
              requests' = Append(requests, page)]_vars
    /\ [][requests' # requests =>
              \/ pc = "request" /\ pc' = "process"
              \/ Started /\ requests' = <<>> /\ page' = 0]_vars
    /\ [][page' # page =>
              \/ /\ pc = "process" /\ pc' = "request"
                 /\ ~Terminal(response)
                 /\ page' = page + 1
              \/ Started /\ page' = 0]_vars
    /\ [][DONE => DONE' \/ Started]_vars
    /\ [](DONE => Terminal(site[Len(requests)]))

\* a run has finished after pages 0, 1 and 2, the third of which ended the
\* crawl
C17_Witness ==
    /\ pc = "finished"
    /\ requests = <<0, 1, 2>>
    /\ page = 2
    /\ Terminal(site[3])
    /\ ~Terminal(site[1]) /\ ~Terminal(site[2])

\* C19: crawl-then-persist ordering: every page fetch of a run precedes every
\* insert of that run: while CRAWLING the tables stay as the run found them,
\* the tables change only by an insert made when the controller is DONE, no
\* page is requested once inserting has begun, and a crawl ended by an
\* exception before DONE has persisted none of the grants it collected.
C19_CrawlThenPersist ==
    /\ [][CRAWLING => tables' = tables]_vars
    /\ [][tables' # tables => (DONE /\ pc = "insert" /\ pos' = pos + 1)]_vars
    /\ [][pc = "insert" => requests' = requests]_vars
    /\ [](pos > 0 => DONE)
    /\ []((CRAWLING \/ pc = "crashed") =>
            /\ Store = pre
            /\ last = NoCall
            /\ pos = 0
            /\ Len(grants) = rows_at_start)
    /\ []((pc = "crashed" /\ ~rerun) =>
            grants = <<>> /\ genres = <<>> /\ grant_genre = <<>>)

\* the first run collected the grants of page 0 and the first of page 1, was
\* ended by the malformed row after it, and left the tables empty
C19_Witness ==
    /\ pc = "crashed"
    /\ ~rerun
    /\ Len(requests) = 2
    /\ Len(grants_list) >= 2
    /\ Len(grants_list) > Len(Collected(1))
    /\ grants = <<>>

\* the store a new file holds
EmptyStore == DB(<<>>, <<>>, <<>>, NoSequence)

\* C18 as stated: crash recovery by re-run: when a run is interrupted between
\* any two write operations (grant insert, genre ensure, genre link) and the
\* pipeline is run again to completion over the same data, no grant is stored
\* twice and the final store is the store of one uninterrupted run: the same
\* grants rows, and every stored grant linked to every genre its genres text
\* names.
C18_RerunRestores ==
    pc = "finished" =>
        /\ \A i, j \in 1..Len(grants) :
              NaturalKey(grants[i]) = NaturalKey(grants[j]) => i = j
        /\ grants = InsertAll(EmptyStore, grants_list).grants
        /\ \A i \in 1..Len(grants) : \A n \in GenreNames(grants[i].genres) :
              Pair(genres, grants[i].id, n) \in Range(grant_genre)

=============================================================================
